---- MODULE Spec2Model ----
(***************************************************************************)
(* A model of the labelling service of app.py: the project state, the      *)
(* directory tree it works on, and the handlers that open, list, save,     *)
(* soft-delete, restore and export.                                        *)
(*                                                                         *)
(* Representation.  A directory path is a sequence of directory names      *)
(* (strings), <<>> being "/".  A file path is a record [dir, name]; a file *)
(* name is a sequence of one-character strings, so that glob, lower(),     *)
(* endswith(), splitext() and sorted() are computed on the characters.     *)
(* Directory names of the modelled trees contain no dot, so "*.*" never    *)
(* matches a directory.  Paths given to the handlers are already absolute  *)
(* and use "/", on which norm() changes nothing.                           *)
(***************************************************************************)
EXTENDS Integers, Sequences, FiniteSets, TLC

VARIABLES files, dirs, state, class_names, inflight, resp, prev, nops

vars == <<files, dirs, state, class_names, inflight, resp, prev, nops>>

(***************************************************************************)
(* Bounds                                                                  *)
(***************************************************************************)
MaxOps == 3

(***************************************************************************)
(* Characters and file names                                               *)
(***************************************************************************)
UPPER == <<"A","B","C","D","E","F","G","H","I","J","K","L","M",
           "N","O","P","Q","R","S","T","U","V","W","X","Y","Z">>

LOWER == <<"a","b","c","d","e","f","g","h","i","j","k","l","m",
           "n","o","p","q","r","s","t","u","v","w","x","y","z">>

\* code point of a character (ASCII), as a table
OrdTable ==
  [c \in { UPPER[i] : i \in 1..26 } \cup { LOWER[i] : i \in 1..26 } \cup {".", "_"} |->
     IF \E i \in 1..26 : UPPER[i] = c THEN 64 + (CHOOSE i \in 1..26 : UPPER[i] = c)
     ELSE IF \E i \in 1..26 : LOWER[i] = c THEN 96 + (CHOOSE i \in 1..26 : LOWER[i] = c)
     ELSE IF c = "." THEN 46
     ELSE 95]

Ord(c) == IF c \in DOMAIN OrdTable THEN OrdTable[c] ELSE 0

\* the lower-case letter of every upper-case letter
LowerTable == [c \in { UPPER[i] : i \in 1..26 } |-> LOWER[CHOOSE i \in 1..26 : UPPER[i] = c]]

\* str.lower() on one character
LowerChar(c) == IF c \in DOMAIN LowerTable THEN LowerTable[c] ELSE c

\* str.lower()
Lower(n) == [i \in 1..Len(n) |-> LowerChar(n[i])]

\* str.endswith(suffix)
EndsWith(n, suf) ==
  /\ Len(n) >= Len(suf)
  /\ SubSeq(n, Len(n) - Len(suf) + 1, Len(n)) = suf

\* Python's str < str : lexicographic on code points
StrLess(a, b) ==
  \E k \in 1..(Len(b)) :
     /\ \A i \in 1..(k-1) : i <= Len(a) /\ a[i] = b[i]
     /\ \/ k = Len(a) + 1
        \/ k <= Len(a) /\ Ord(a[k]) < Ord(b[k])

ALLOWED_EXTS == { <<".","j","p","g">>, <<".","j","p","e","g">>, <<".","p","n","g">> }

\* f.lower().endswith(ALLOWED_EXTS)
HasAllowedExt(n) == \E e \in ALLOWED_EXTS : EndsWith(Lower(n), e)

\* glob's "*.*": the name holds a dot, and a name that starts with a dot
\* is hidden from a pattern that does not start with one
GlobStarDotStar(n) ==
  /\ \E i \in 1..Len(n) : n[i] = "."
  /\ n[1] # "."

\* os.path.splitext(name): the extension starts at the last dot, leading
\* dots of the name are not extension separators
LeadingDots(n) ==
  IF \A i \in 1..Len(n) : n[i] = "." THEN Len(n)
  ELSE (CHOOSE k \in 1..Len(n) : n[k] # "." /\ \A i \in 1..(k-1) : n[i] = ".") - 1

LastDot(n) ==
  IF \E i \in 1..Len(n) : n[i] = "."
  THEN CHOOSE k \in 1..Len(n) : n[k] = "." /\ \A i \in (k+1)..Len(n) : n[i] # "."
  ELSE 0

splitext(n) ==
  IF LastDot(n) > LeadingDots(n)
  THEN << SubSeq(n, 1, LastDot(n) - 1), SubSeq(n, LastDot(n), Len(n)) >>
  ELSE << n, <<>> >>

TXT == <<".","t","x","t">>

JSON == <<".","j","s","o","n">>

SPLITS == <<"train", "val", "test">>

(***************************************************************************)
(* Paths and the directory tree                                            *)
(***************************************************************************)
File(d, n) == [dir |-> d, name |-> n]

\* os.path.dirname of a directory path; dirname("/") is "/"
dirname(d) == IF d = <<>> THEN <<>> ELSE SubSeq(d, 1, Len(d) - 1)

IsPrefix(a, b) == Len(a) <= Len(b) /\ SubSeq(b, 1, Len(a)) = a

isdir(ds, d) == d \in ds

isfile(fs, f) == f \in DOMAIN fs

\* os.makedirs(d, exist_ok=True)
makedirs(ds, d) == ds \cup { SubSeq(d, 1, k) : k \in 1..Len(d) }

\* the names of the files held directly in directory d
NamesIn(fs, d) == { f.name : f \in { g \in DOMAIN fs : g.dir = d } }

\* the subdirectories held directly in directory d
SubdirsOf(ds, d) == { c \in ds : Len(c) = Len(d) + 1 /\ IsPrefix(d, c) }

\* a function without one of its arguments / with one more
Without(fs, f) == [g \in (DOMAIN fs) \ {f} |-> fs[g]]

WithFile(fs, f, c) == [g \in (DOMAIN fs) \cup {f} |-> IF g = f THEN c ELSE fs[g]]

\* shutil.move(src, dst) of a file onto a file path: rename, replacing dst
move(fs, src, dst) == WithFile(Without(fs, src), dst, fs[src])

\* a copy that takes the source away
copy2_Moving(fs, src, dst) == move(fs, src, dst)

\* shutil.copy2(src, dst)
copy2(fs, src, dst) == WithFile(fs, dst, fs[src])

\* sorted(): ascending by string order
RECURSIVE SortNames(_)
SortNames(S) ==
  IF S = {} THEN <<>>
  ELSE LET m == CHOOSE x \in S : \A y \in S \ {x} : StrLess(x, y)
       IN  <<m>> \o SortNames(S \ {m})

\* list_images(path): the sorted glob of path/*.* kept by extension
list_images(fs, d) ==
  LET names == { n \in NamesIn(fs, d) : GlobStarDotStar(n) /\ HasAllowedExt(n) }
      sorted == SortNames(names)
  IN  [i \in 1..Len(sorted) |-> File(d, sorted[i])]

(***************************************************************************)
(* Project resolution                                                      *)
(***************************************************************************)
\* the value None of yolo_root: no directory has an empty name
None == <<"">>

\* ok(c) of yolo_root
ok(ds, c) == \E i \in 1..Len(SPLITS) : isdir(ds, c \o <<"images", SPLITS[i]>>)

\* a resolution that forgets the parent
yolo_root_NoParent(ds, p) ==
  LET cands == <<p, dirname(dirname(p))>>
      kids  == { cp \in SubdirsOf(ds, p) : ok(ds, cp) }
  IN  IF \E i \in 1..2 : ok(ds, cands[i])
      THEN { cands[CHOOSE i \in 1..2 : ok(ds, cands[i]) /\ \A j \in 1..(i-1) : ~ok(ds, cands[j])] }
      ELSE IF isdir(ds, p) /\ kids # {} THEN kids
      ELSE { None }

\* yolo_root(path): the set of values it can return.  The three candidates
\* are tried in order; the children are tried in the order of os.listdir,
\* which the file system chooses, so any qualifying child can be the result.
yolo_root(ds, p) ==
  LET cands == <<p, dirname(p), dirname(dirname(p))>>
      kids  == { cp \in SubdirsOf(ds, p) : ok(ds, cp) }
  IN  IF \E i \in 1..3 : ok(ds, cands[i])
      THEN { cands[CHOOSE i \in 1..3 : ok(ds, cands[i]) /\ \A j \in 1..(i-1) : ~ok(ds, cands[j])] }
      ELSE IF isdir(ds, p) /\ kids # {} THEN kids
      ELSE { None }

\* ensure_labels(root)
ensure_labels(ds, root) ==
  ds \cup UNION { makedirs(ds, root \o <<"labels", SPLITS[i]>>) :
                    i \in { j \in 1..Len(SPLITS) : isdir(ds, root \o <<"images", SPLITS[j]>>) } }

\* the root open_project settles on
OpenRoot(ds, path, mode, detected) ==
  IF mode \in {"yolo", "rfdetr"} /\ detected # None THEN detected
  ELSE IF mode \in {"yolo", "rfdetr"} /\ isdir(ds, path \o <<"images">>) THEN path
  ELSE IF mode = "images" /\ detected # None THEN detected
  ELSE path

\* split_files of open_project: the present splits, in the order of SPLITS
PresentSplits(ds, root) ==
  SelectSeq(SPLITS, LAMBDA s : isdir(ds, root \o <<"images", s>>))

\* a choice that takes the first present split, empty or not
OpenSplit_FirstPresent(fs, ds, root) ==
  IF PresentSplits(ds, root) # <<>> THEN PresentSplits(ds, root)[1] ELSE "train"

\* the active split open_project chooses on a root with an images/ subtree
OpenSplit(fs, ds, root) ==
  LET present   == PresentSplits(ds, root)
      non_empty == SelectSeq(present, LAMBDA s : list_images(fs, root \o <<"images", s>>) # <<>>)
  IN  IF \E i \in 1..Len(non_empty) : non_empty[i] = "train" THEN "train"
      ELSE IF non_empty # <<>> THEN non_empty[1]
      ELSE IF present # <<>> THEN present[1]
      ELSE "train"

\* split_files.get(state.split, [])
OpenImages(fs, ds, root, split) ==
  IF isdir(ds, root \o <<"images", split>>) /\ \E i \in 1..Len(SPLITS) : SPLITS[i] = split
  THEN list_images(fs, root \o <<"images", split>>)
  ELSE <<>>

(***************************************************************************)
(* The trees the service is started on                                     *)
(***************************************************************************)
Img(id) == [kind |-> "image", id |-> id, w |-> 100, h |-> 200]

Blob(id) == [kind |-> "blob", id |-> id]

Text(lines) == [kind |-> "text", lines |-> lines]

\* the fields of a line of a text file: a number float() reads, held as a
\* count of 10^-6, or a word float() refuses
Num(n) == [num |-> n]

Word(s) == [word |-> s]

A_JPG == <<"a",".","j","p","g">>

B_PNG == <<"B",".","P","N","G">>

C_JPEG == <<"c",".","j","p","e","g">>

HIDDEN_JPG == <<".","h",".","j","p","g">>

N_TXT == <<"n",".","t","x","t">>

A_TXT == <<"a",".","t","x","t">>

A_JSON == <<"a",".","j","s","o","n">>

Closure(D) == UNION { makedirs({}, d) : d \in D }

\* a flat folder of pictures, one of them hidden, and a note
LayoutFlat ==
  [ dirs  |-> Closure({ <<"ws", "flat">> }),
    files |-> ( File(<<"ws","flat">>, A_JPG)      :> Img(1)
             @@ File(<<"ws","flat">>, B_PNG)      :> Img(2)
             @@ File(<<"ws","flat">>, HIDDEN_JPG) :> Img(3)
             @@ File(<<"ws","flat">>, N_TXT)      :> Blob(4) ) ]

\* a split-structured data set with a working folder below it, and a
\* second data set nested in it
LayoutDs ==
  [ dirs  |-> Closure({ <<"ws","ds","images","train">>, <<"ws","ds","images","val">>,
                        <<"ws","ds","images","test">>, <<"ws","ds","labels","train">>,
                        <<"ws","ds","sub","deep">>, <<"ws","ds","nest","images","val">> }),
    files |-> ( File(<<"ws","ds","images","train">>, A_JPG)  :> Img(1)
             @@ File(<<"ws","ds","images","train">>, B_PNG)  :> Img(2)
             @@ File(<<"ws","ds","images","val">>, A_JPG)    :> Img(3)
             @@ File(<<"ws","ds","labels","train">>, A_TXT)  :> Text(<< <<Num(0), Num(500000), Num(500000), Num(200000), Num(400000)>> >>)
             @@ File(<<"ws","ds","labels","train">>, A_JSON) :> Blob(5) ) ]

\* a folder that holds two data sets, and one with an images/ folder
\* that has no split
LayoutTop ==
  [ dirs  |-> Closure({ <<"ws","top","k1","images","val">>, <<"ws","top","k1","images","train">>,
                        <<"ws","top","k2","images","test">>,
                        <<"ws","odd","images","extra">> }),
    files |-> ( File(<<"ws","top","k1","images","val">>, C_JPEG) :> Img(1)
             @@ File(<<"ws","odd","images","extra">>, A_JPG)     :> Img(2) ) ]

Layouts == { LayoutFlat, LayoutDs, LayoutTop }

MissingDir == <<"ws", "nowhere">>

NoProject == [root |-> <<>>, mode |-> "images", split |-> "train", images |-> <<>>]

\* the class registry the module starts with
DefaultClasses == << <<"c","l","a","s","s","0">>, <<"c","l","a","s","s","1">>,
                     <<"c","l","a","s","s","2">> >>

\* no remove or restore is between two of its moves
Idle == [kind |-> "idle"]

Snapshot == [files |-> files, dirs |-> dirs, state |-> state, class_names |-> class_names]

\* what every run starts with, whatever the tree
Started ==
  /\ state = NoProject
  /\ class_names = DefaultClasses
  /\ inflight = Idle
  /\ resp = [op |-> "start", code |-> 200]
  /\ prev = [files |-> << >>, dirs |-> {}, state |-> NoProject, class_names |-> DefaultClasses]
  /\ nops = 0

Init ==
  /\ \E L \in Layouts : files = L.files /\ dirs = L.dirs
  /\ Started

\* every handler that runs from its first line to its last without another
\* request in between is one step; the number of requests is bounded
Step(op) ==
  /\ nops < MaxOps
  /\ nops' = nops + 1
  /\ prev' = Snapshot
  /\ UNCHANGED inflight

MODES == {"images", "yolo", "rfdetr", "other"}

\* the folders a client opens
OpenPaths == { <<"ws","flat">>, <<"ws","ds">>, <<"ws","ds","sub">>, <<"ws","ds","sub","deep">>,
               <<"ws","ds","nest">>, <<"ws","top">>, <<"ws","odd">>, MissingDir }

SplitArgs == {"train", "val", "test", "extra"}

Respond(op, code) == resp' = [op |-> op, code |-> code]

(***************************************************************************)
(* POST /api/project/open                                                  *)
(***************************************************************************)
open_project(path, mode) ==
  /\ Step("open")
  /\ UNCHANGED class_names
  /\ IF ~isdir(dirs, path)
     THEN /\ resp' = [op |-> "open", code |-> 400, path |-> path]
          /\ UNCHANGED <<files, dirs, state>>
     ELSE \E detected \in yolo_root(dirs, path) :
          LET rootp == OpenRoot(dirs, path, mode, detected) IN
          /\ resp' = [op |-> "open", code |-> 200, path |-> path, detected |-> detected]
          /\ UNCHANGED files
          /\ IF isdir(dirs, rootp \o <<"images">>)
             THEN LET split == OpenSplit(files, dirs, rootp) IN
                  /\ dirs' = ensure_labels(dirs, rootp)
                  /\ state' = [root |-> rootp, mode |-> mode, split |-> split,
                               images |-> OpenImages(files, dirs, rootp, split)]
             ELSE /\ dirs' = makedirs(dirs, rootp \o <<"labels", "train">>)
                  /\ state' = [root |-> rootp, mode |-> mode, split |-> "train",
                               images |-> list_images(files, rootp)]

\* a split change that refuses a split that is not there
change_split_Refusing(split) ==
  /\ Step("split")
  /\ UNCHANGED class_names
  /\ UNCHANGED <<files, dirs>>
  /\ IF state.root = <<>> \/ ~isdir(dirs, state.root \o <<"images", split>>)
     THEN /\ Respond("split", 400)
          /\ UNCHANGED state
     ELSE /\ resp' = [op |-> "split", code |-> 200, split |-> split]
          /\ state' = [state EXCEPT !.split = split,
                                    !.images = list_images(files, state.root \o <<"images", split>>)]

(***************************************************************************)
(* POST /api/project/split                                                 *)
(***************************************************************************)
change_split(split) ==
  /\ Step("split")
  /\ UNCHANGED class_names
  /\ UNCHANGED <<files, dirs>>
  /\ IF state.root = <<>>
     THEN /\ Respond("split", 400)
          /\ UNCHANGED state
     ELSE /\ resp' = [op |-> "split", code |-> 200, split |-> split]
          /\ IF isdir(dirs, state.root \o <<"images", split>>)
             THEN state' = [state EXCEPT !.split = split,
                                         !.images = list_images(files, state.root \o <<"images", split>>)]
             ELSE state' = [state EXCEPT !.split = "train", !.images = <<>>]

(***************************************************************************)
(* POST /api/remove                                                        *)
(***************************************************************************)
\* the loop over (".txt", ".json") of remove_image and restore_image: each
\* label file of that base that is in from_dir moves to to_dir
RECURSIVE MoveLabels(_, _, _, _, _)
MoveLabels(fs, from_dir, to_dir, base, exts) ==
  IF exts = <<>> THEN fs
  ELSE LET src == File(from_dir, base \o Head(exts))
           fs2 == IF isfile(fs, src) THEN move(fs, src, File(to_dir, base \o Head(exts))) ELSE fs
       IN  MoveLabels(fs2, from_dir, to_dir, base, Tail(exts))

LABEL_EXTS == <<TXT, JSON>>

\* a remove that leaves the label files behind
RemoveFiles_ImageOnly(fs, root, img, split) ==
  move(fs, img, File(root \o <<"removed", split, "images">>, img.name))

\* the files after remove_image's moves
RemoveFiles(fs, root, img, split) ==
  LET base == splitext(img.name)[1]
      fs1  == move(fs, img, File(root \o <<"removed", split, "images">>, img.name))
  IN  MoveLabels(fs1, root \o <<"labels", split>>, root \o <<"removed", split, "labels">>,
                 base, LABEL_EXTS)

\* the refresh of the cached list that ends remove_image and restore_image
RefreshImages(st, fs, ds, split) ==
  IF isdir(ds, st.root \o <<"images", split>>)
  THEN [st EXCEPT !.images = list_images(fs, st.root \o <<"images", split>>)]
  ELSE st

remove_image(img, split) ==
  /\ Step("remove")
  /\ UNCHANGED class_names
  /\ IF state.root = <<>>
     THEN /\ Respond("remove", 400)
          /\ UNCHANGED <<files, dirs, state>>
     ELSE IF ~isfile(files, img)
     THEN /\ resp' = [op |-> "remove", code |-> 404, img |-> img, split |-> split]
          /\ UNCHANGED <<files, dirs, state>>
     ELSE /\ dirs' = makedirs(makedirs(dirs, state.root \o <<"removed", split, "images">>),
                              state.root \o <<"removed", split, "labels">>)
          /\ files' = RemoveFiles(files, state.root, img, split)
          /\ state' = RefreshImages(state, files', dirs', split)
          /\ resp' = [op |-> "remove", code |-> 200, img |-> img, split |-> split]

(***************************************************************************)
(* GET /api/restore/list                                                   *)
(***************************************************************************)
\* a list of everything held, whatever its extension
RemovedList_Unfiltered(fs, ds, root, split) ==
  SortNames(NamesIn(fs, root \o <<"removed", split, "images">>))

\* the "files" of the response of restore_list
RemovedList(fs, ds, root, split) ==
  LET rem_img_dir == root \o <<"removed", split, "images">>
  IN  IF ~isdir(ds, rem_img_dir) THEN <<>>
      ELSE SortNames({ n \in NamesIn(fs, rem_img_dir) : HasAllowedExt(n) })

restore_list(split) ==
  /\ Step("list")
  /\ UNCHANGED class_names
  /\ UNCHANGED <<files, dirs, state>>
  /\ IF state.root = <<>>
     THEN Respond("list", 400)
     ELSE resp' = [op |-> "list", code |-> 200, split |-> split,
                   files |-> RemovedList(files, dirs, state.root, split)]

(***************************************************************************)
(* POST /api/restore                                                       *)
(***************************************************************************)
\* the files after restore_image's moves
RestoreFiles(fs, root, split, filename) ==
  LET base == splitext(filename)[1]
      fs1  == move(fs, File(root \o <<"removed", split, "images">>, filename),
                       File(root \o <<"images", split>>, filename))
  IN  MoveLabels(fs1, root \o <<"removed", split, "labels">>, root \o <<"labels", split>>,
                 base, LABEL_EXTS)

\* a restore that makes its directories before it looks for the file
restore_image_EagerDirs(split, filename) ==
  /\ Step("restore")
  /\ UNCHANGED class_names
  /\ IF state.root = <<>>
     THEN /\ Respond("restore", 400)
          /\ UNCHANGED <<files, dirs, state>>
     ELSE /\ dirs' = makedirs(makedirs(dirs, state.root \o <<"images", split>>),
                              state.root \o <<"labels", split>>)
          /\ IF ~isfile(files, File(state.root \o <<"removed", split, "images">>, filename))
             THEN /\ resp' = [op |-> "restore", code |-> 404, split |-> split, filename |-> filename]
                  /\ UNCHANGED <<files, state>>
             ELSE /\ files' = RestoreFiles(files, state.root, split, filename)
                  /\ state' = RefreshImages(state, files', dirs', split)
                  /\ resp' = [op |-> "restore", code |-> 200, split |-> split, filename |-> filename]

restore_image(split, filename) ==
  /\ Step("restore")
  /\ UNCHANGED class_names
  /\ IF state.root = <<>>
     THEN /\ Respond("restore", 400)
          /\ UNCHANGED <<files, dirs, state>>
     ELSE IF ~isfile(files, File(state.root \o <<"removed", split, "images">>, filename))
     THEN /\ resp' = [op |-> "restore", code |-> 404, split |-> split, filename |-> filename]
          /\ UNCHANGED <<files, dirs, state>>
     ELSE /\ dirs' = makedirs(makedirs(dirs, state.root \o <<"images", split>>),
                              state.root \o <<"labels", split>>)
          /\ files' = RestoreFiles(files, state.root, split, filename)
          /\ state' = RefreshImages(state, files', dirs', split)
          /\ resp' = [op |-> "restore", code |-> 200, split |-> split, filename |-> filename]

(***************************************************************************)
(* remove_image and restore_image move by move.  The handlers run in the   *)
(* server's thread pool and take no lock, so the requests of other callers *)
(* run between two moves of a request.  A request in flight has resolved   *)
(* the directory its labels go to; it reads state.root again when it looks *)
(* for each label and when it refreshes the cached list.                   *)
(***************************************************************************)
\* remove_image up to the move of the image
remove_image_begin(img, split) ==
  /\ inflight = Idle
  /\ nops < MaxOps
  /\ nops' = nops + 1
  /\ prev' = Snapshot
  /\ UNCHANGED <<state, class_names>>
  /\ IF state.root = <<>>
     THEN /\ Respond("remove", 400)
          /\ UNCHANGED <<files, dirs, inflight>>
     ELSE IF ~isfile(files, img)
     THEN /\ resp' = [op |-> "remove", code |-> 404, img |-> img, split |-> split]
          /\ UNCHANGED <<files, dirs, inflight>>
     ELSE /\ dirs' = makedirs(makedirs(dirs, state.root \o <<"removed", split, "images">>),
                              state.root \o <<"removed", split, "labels">>)
          /\ files' = move(files, img, File(state.root \o <<"removed", split, "images">>, img.name))
          /\ inflight' = [kind |-> "remove", img |-> img, split |-> split,
                          base |-> splitext(img.name)[1],
                          to_dir |-> state.root \o <<"removed", split, "labels">>,
                          exts |-> LABEL_EXTS]
          /\ UNCHANGED resp

\* restore_image up to the move of the image
restore_image_begin(split, filename) ==
  /\ inflight = Idle
  /\ nops < MaxOps
  /\ nops' = nops + 1
  /\ prev' = Snapshot
  /\ UNCHANGED <<state, class_names>>
  /\ IF state.root = <<>>
     THEN /\ Respond("restore", 400)
          /\ UNCHANGED <<files, dirs, inflight>>
     ELSE IF ~isfile(files, File(state.root \o <<"removed", split, "images">>, filename))
     THEN /\ resp' = [op |-> "restore", code |-> 404, split |-> split, filename |-> filename]
          /\ UNCHANGED <<files, dirs, inflight>>
     ELSE /\ dirs' = makedirs(makedirs(dirs, state.root \o <<"images", split>>),
                              state.root \o <<"labels", split>>)
          /\ files' = move(files, File(state.root \o <<"removed", split, "images">>, filename),
                                  File(state.root \o <<"images", split>>, filename))
          /\ inflight' = [kind |-> "restore", img |-> File(state.root \o <<"images", split>>, filename),
                          split |-> split, base |-> splitext(filename)[1],
                          to_dir |-> state.root \o <<"labels", split>>,
                          exts |-> LABEL_EXTS]
          /\ UNCHANGED resp

\* one turn of the loop over (".txt", ".json") of the request in flight
move_label ==
  /\ inflight # Idle
  /\ inflight.exts # <<>>
  /\ LET from_dir == IF inflight.kind = "remove"
                     THEN state.root \o <<"labels", inflight.split>>
                     ELSE state.root \o <<"removed", inflight.split, "labels">>
         src      == File(from_dir, inflight.base \o Head(inflight.exts))
     IN  files' = IF isfile(files, src)
                  THEN move(files, src, File(inflight.to_dir, src.name))
                  ELSE files
  /\ inflight' = [inflight EXCEPT !.exts = Tail(@)]
  /\ UNCHANGED <<dirs, state, class_names, resp, prev, nops>>

\* the refresh of the cached list and the answer of the request in flight
finish_move ==
  /\ inflight # Idle
  /\ inflight.exts = <<>>
  /\ state' = RefreshImages(state, files, dirs, inflight.split)
  /\ resp' = IF inflight.kind = "remove"
             THEN [op |-> "remove", code |-> 200, img |-> inflight.img, split |-> inflight.split]
             ELSE [op |-> "restore", code |-> 200, split |-> inflight.split,
                   filename |-> inflight.img.name]
  /\ inflight' = Idle
  /\ UNCHANGED <<files, dirs, class_names, prev, nops>>

(***************************************************************************)
(* The label codec.  A label file is a sequence of lines, a line a         *)
(* sequence of fields; a numeric field Num(n) holds an integer count of    *)
(* 10^-6, which is what the six decimals of the format hold.  Pixel        *)
(* coordinates are integers; a decoded coordinate is kept as a count of    *)
(* 1/(2*10^6) pixel, in which (cx - bw/2)*w is exact.                      *)
(***************************************************************************)
MICRO == 1000000

\* n/d cut to the integer below
RoundDiv_Floor(n, d) == n \div d

\* n/d rounded to the nearest integer, ties to even (d > 0)
RoundDiv(n, d) ==
  LET q == n \div d
      r == n - q * d
  IN  IF 2 * r < d THEN q
      ELSE IF 2 * r > d THEN q + 1
      ELSE IF q % 2 = 0 THEN q ELSE q + 1

\* one line of save_yolo_labels
EncodeLine(r, w, h) ==
  << Num(r[5] * MICRO),
     Num(RoundDiv((r[1] + r[3]) * MICRO, 2 * w)),
     Num(RoundDiv((r[2] + r[4]) * MICRO, 2 * h)),
     Num(RoundDiv((r[3] - r[1]) * MICRO, w)),
     Num(RoundDiv((r[4] - r[2]) * MICRO, h)) >>

Encode(rects, w, h) == [i \in 1..Len(rects) |-> EncodeLine(rects[i], w, h)]

\* a field float() accepts
IsNumber(t) == "num" \in DOMAIN t

\* int() of a float: truncation toward zero
TruncMicro(n) == IF n >= 0 THEN n \div MICRO ELSE -((-n) \div MICRO)

\* read_yolo_labels on the lines of a file: "ok" is FALSE when float()
\* raises on a field of a five-field line
RECURSIVE DecodeLines(_, _, _)
DecodeLines(lines, w, h) ==
  IF lines = <<>> THEN [ok |-> TRUE, rects |-> <<>>]
  ELSE LET l    == Head(lines)
           rest == DecodeLines(Tail(lines), w, h)
       IN  IF Len(l) # 5 THEN rest
           ELSE IF \E i \in 1..5 : ~IsNumber(l[i]) THEN [ok |-> FALSE, rects |-> <<>>]
           ELSE IF ~rest.ok THEN rest
           ELSE [ok |-> TRUE,
                 rects |-> << << (2 * l[2].num - l[4].num) * w, (2 * l[3].num - l[5].num) * h,
                                 (2 * l[2].num + l[4].num) * w, (2 * l[3].num + l[5].num) * h,
                                 TruncMicro(l[1].num) >> >> \o rest.rects]

\* the lines of a file opened as text
LinesOf(c) == IF c.kind = "text" THEN c.lines ELSE <<>>

\* a reader that takes the height for the width
read_yolo_labels_SwappedSize(fs, lbl, w, h) ==
  IF ~isfile(fs, lbl) \/ LinesOf(fs[lbl]) = <<>> THEN [ok |-> TRUE, rects |-> <<>>]
  ELSE DecodeLines(LinesOf(fs[lbl]), h, w)

\* read_yolo_labels(label_path, w, h)
read_yolo_labels(fs, lbl, w, h) ==
  IF ~isfile(fs, lbl) \/ LinesOf(fs[lbl]) = <<>> THEN [ok |-> TRUE, rects |-> <<>>]
  ELSE DecodeLines(LinesOf(fs[lbl]), w, h)

\* a save that writes the empty set as an empty file
save_yolo_labels_Truncating(fs, lbl, rects, w, h) ==
  WithFile(fs, lbl, Text(Encode(rects, w, h)))

\* the files after save_yolo_labels(label_path, rects, w, h)
save_yolo_labels(fs, lbl, rects, w, h) ==
  IF rects = <<>>
  THEN IF isfile(fs, lbl) THEN Without(fs, lbl) ELSE fs
  ELSE WithFile(fs, lbl, Text(Encode(rects, w, h)))

(***************************************************************************)
(* GET /api/labels                                                         *)
(***************************************************************************)
\* the label path of an image in a split
LabelPath(root, split, img) == File(root \o <<"labels", split>>, splitext(img.name)[1] \o TXT)

get_labels(img, split) ==
  /\ Step("labels")
  /\ UNCHANGED class_names
  /\ UNCHANGED <<files, dirs, state>>
  /\ IF state.root = <<>>
     THEN Respond("labels", 400)
     ELSE IF ~isfile(files, img)
     THEN Respond("labels", 404)
     ELSE IF files[img].kind # "image"
     THEN \* Image.open raises
          Respond("labels", 500)
     ELSE LET lbl == LabelPath(state.root, split, img)
              w   == files[img].w
              h   == files[img].h
              r   == read_yolo_labels(files, lbl, w, h)
          IN  IF r.ok
              THEN resp' = [op |-> "labels", code |-> 200, lbl |-> lbl, width |-> w, height |-> h,
                            rects |-> r.rects,
                            has_label_file |-> isfile(files, lbl) /\ LinesOf(files[lbl]) # <<>>]
              ELSE \* float() or int() raises on a field
                   resp' = [op |-> "labels", code |-> 500, lbl |-> lbl, width |-> w, height |-> h]

(***************************************************************************)
(* POST /api/labels/save                                                   *)
(***************************************************************************)

\* a rectangle list the loop of save_yolo_labels can unpack
Unpackable(rects) == \A i \in 1..Len(rects) : Len(rects[i]) = 5

save_labels(img, split, rects) ==
  /\ Step("save")
  /\ UNCHANGED class_names
  /\ UNCHANGED state
  /\ IF state.root = <<>>
     THEN /\ Respond("save", 400)
          /\ UNCHANGED <<files, dirs>>
     ELSE IF ~isfile(files, img)
     THEN /\ Respond("save", 404)
          /\ UNCHANGED <<files, dirs>>
     ELSE IF files[img].kind # "image"
     THEN \* Image.open raises
          /\ Respond("save", 500)
          /\ UNCHANGED <<files, dirs>>
     ELSE LET lbl == LabelPath(state.root, split, img) IN
          /\ dirs' = makedirs(dirs, lbl.dir)
          /\ IF Unpackable(rects)
             THEN /\ files' = save_yolo_labels(files, lbl, rects, files[img].w, files[img].h)
                  /\ resp' = [op |-> "save", code |-> 200, lbl |-> lbl, rects |-> rects]
             ELSE \* the unpacking of a rectangle raises, after makedirs
                  /\ Respond("save", 500)
                  /\ UNCHANGED files

(***************************************************************************)
(* POST /api/export                                                        *)
(***************************************************************************)
Entry(split, img, root) == [split |-> split, img |-> img, lbl |-> LabelPath(root, split, img)]

RECURSIVE SplitEntries(_, _, _, _)
SplitEntries(fs, ds, root, splits) ==
  IF splits = <<>> THEN <<>>
  ELSE LET s    == Head(splits)
           imgs == IF isdir(ds, root \o <<"images", s>>)
                   THEN list_images(fs, root \o <<"images", s>>) ELSE <<>>
       IN  [i \in 1..Len(imgs) |-> Entry(s, imgs[i], root)] \o SplitEntries(fs, ds, root, Tail(splits))

\* entries of export_all
ExportEntries(fs, ds, root) ==
  IF isdir(ds, root \o <<"images">>)
  THEN SplitEntries(fs, ds, root, SPLITS)
  ELSE LET imgs == list_images(fs, root)
       IN  [i \in 1..Len(imgs) |-> Entry("train", imgs[i], root)]

\* the "YOLO (.txt)" loop; copy2 of a file onto itself raises SameFileError
\* and ends the request with what was written so far
RECURSIVE ExportYolo(_, _, _, _)
ExportYolo(fs, ds, out, entries) ==
  IF entries = <<>> THEN [files |-> fs, dirs |-> ds, ok |-> TRUE]
  ELSE LET e    == Head(entries)
           ds2  == makedirs(makedirs(ds, out \o <<"images", e.split>>), out \o <<"labels", e.split>>)
           dst  == File(out \o <<"images", e.split>>, e.img.name)
           fs2  == copy2(fs, e.img, dst)
           dstl == File(out \o <<"labels", e.split>>, e.lbl.name)
       IN  IF dst = e.img THEN [files |-> fs, dirs |-> ds2, ok |-> FALSE]
           ELSE IF ~isfile(fs2, e.lbl) THEN ExportYolo(fs2, ds2, out, Tail(entries))
           ELSE IF dstl = e.lbl THEN [files |-> fs2, dirs |-> ds2, ok |-> FALSE]
           ELSE ExportYolo(copy2(fs2, e.lbl, dstl), ds2, out, Tail(entries))

\* one annotation of the manifest, from a decoded rectangle
Annotation(r, w, h) ==
  [ class_id  |-> r[5],
    bbox_xyxy |-> <<r[1], r[2], r[3], r[4]>>,
    bbox_yolo |-> << (r[1] + r[3]) \div (4 * w), (r[2] + r[4]) \div (4 * h),
                     (r[3] - r[1]) \div (2 * w), (r[4] - r[2]) \div (2 * h) >> ]

ManifestItem(fs, e) ==
  LET w     == fs[e.img].w
      h     == fs[e.img].h
      rects == read_yolo_labels(fs, e.lbl, w, h).rects
  IN  [ image |-> e.img.name, split |-> e.split, width |-> w, height |-> h,
        annotations |-> [i \in 1..Len(rects) |-> Annotation(rects[i], w, h)] ]

\* the manifest loop: by_split maps a split to its items
RECURSIVE ExportJson(_, _, _, _, _)
ExportJson(fs, ds, out, entries, by_split) ==
  IF entries = <<>> THEN [files |-> fs, dirs |-> ds, ok |-> TRUE, by_split |-> by_split]
  ELSE LET e    == Head(entries)
           ds2  == makedirs(makedirs(ds, out \o <<"images", e.split>>), out \o <<"annotations">>)
           dst  == File(out \o <<"images", e.split>>, e.img.name)
           fs2  == copy2(fs, e.img, dst)
           bad  == [files |-> fs2, dirs |-> ds2, ok |-> FALSE, by_split |-> by_split]
       IN  IF dst = e.img THEN [bad EXCEPT !.files = fs]
           ELSE IF ~isfile(fs2, e.img) \/ fs2[e.img].kind # "image" THEN bad
           ELSE IF ~read_yolo_labels(fs2, e.lbl, fs2[e.img].w, fs2[e.img].h).ok THEN bad
           ELSE ExportJson(fs2, ds2, out, Tail(entries),
                           [by_split EXCEPT ![e.split] = @ \o <<ManifestItem(fs2, e)>>])

\* "<split>.json" as a file name
ManifestName(split) ==
  CASE split = "train" -> <<"t","r","a","i","n">> \o JSON
    [] split = "val"   -> <<"v","a","l">> \o JSON
    [] split = "test"  -> <<"t","e","s","t">> \o JSON

\* the manifests written after the loop, one per split that has an item
RECURSIVE WriteManifests(_, _, _, _)
WriteManifests(fs, out, by_split, splits) ==
  IF splits = <<>> THEN fs
  ELSE LET s   == Head(splits)
           fs2 == IF by_split[s] = <<>> THEN fs
                  ELSE WithFile(fs, File(out \o <<"annotations">>, ManifestName(s)),
                                [kind |-> "json", items |-> by_split[s]])
       IN  WriteManifests(fs2, out, by_split, Tail(splits))

NoItems == [s \in {"train", "val", "test"} |-> <<>>]

\* the state of the tree after export_all, and whether it ran to its end
ExportResult(fs, ds, root, out, fmt) ==
  LET ds1     == makedirs(ds, out)
      entries == ExportEntries(fs, ds1, root)
  IN  IF fmt = "YOLO (.txt)"
      THEN LET r == ExportYolo(fs, ds1, out, entries)
           IN  [files |-> r.files, dirs |-> r.dirs, ok |-> r.ok, count |-> Len(entries)]
      ELSE LET r == ExportJson(fs, ds1, out, entries, NoItems)
           IN  [files |-> IF r.ok THEN WriteManifests(r.files, out, r.by_split, SPLITS) ELSE r.files,
                dirs |-> r.dirs, ok |-> r.ok, count |-> Len(entries)]

export_all(out, fmt) ==
  /\ Step("export")
  /\ UNCHANGED class_names
  /\ UNCHANGED state
  /\ IF state.root = <<>>
     THEN /\ Respond("export", 400)
          /\ UNCHANGED <<files, dirs>>
     ELSE LET r == ExportResult(files, dirs, state.root, out, fmt) IN
          /\ files' = r.files
          /\ dirs' = r.dirs
          /\ resp' = [op |-> "export", code |-> IF r.ok THEN 200 ELSE 500,
                      out |-> out, fmt |-> fmt, count |-> r.count]

(***************************************************************************)
(* POST /api/classes.  A class name is a sequence of characters.           *)
(***************************************************************************)
\* the characters str.strip() takes away
IsSpace(c) == c \in {" ", "\t"}

\* str.strip()
strip(n) ==
  IF \A i \in 1..Len(n) : IsSpace(n[i]) THEN <<>>
  ELSE LET a == CHOOSE k \in 1..Len(n) : ~IsSpace(n[k]) /\ \A i \in 1..(k-1) : IsSpace(n[i])
           b == CHOOSE k \in 1..Len(n) : ~IsSpace(n[k]) /\ \A i \in (k+1)..Len(n) : IsSpace(n[i])
       IN  SubSeq(n, a, b)

\* [n.strip() for n in req.names if n.strip()]
StrippedNames(names) ==
  LET kept == SelectSeq(names, LAMBDA n : strip(n) # <<>>)
  IN  [i \in 1..Len(kept) |-> strip(kept[i])]

\* a handler that stores whatever is left of the list
set_classes_Unchecked(names) ==
  /\ Step("classes")
  /\ UNCHANGED <<files, dirs, state>>
  /\ class_names' = StrippedNames(names)
  /\ resp' = [op |-> "classes", code |-> 200, names |-> names]

set_classes(names) ==
  /\ Step("classes")
  /\ UNCHANGED <<files, dirs, state>>
  /\ IF StrippedNames(names) = <<>>
     THEN /\ resp' = [op |-> "classes", code |-> 400, names |-> names]
          /\ UNCHANGED class_names
     ELSE /\ class_names' = StrippedNames(names)
          /\ resp' = [op |-> "classes", code |-> 200, names |-> names]

(***************************************************************************)
(* The requests                                                            *)
(***************************************************************************)
\* the image paths a client sends: any file, or a path that is no file
MissingFile == File(<<"ws", "nowhere">>, A_JPG)

ImageArgs == DOMAIN files \cup { MissingFile }

NameArgs == { f.name : f \in ImageArgs } \cup { C_JPEG }

RectArgs == { <<>>, << <<40, 60, 60, 140, 0>> >>, << <<10, 20, 30>> >> }

\* an output folder outside the project, the project root, folders in it
OutArgs == { <<"ws","out">>, state.root, state.root \o <<"exp">>, state.root \o <<"images">> }

FmtArgs == { "YOLO (.txt)", "JSON", "COCO" }

\* the lists of class names a client sends
CAT == <<"c","a","t">>

DOG == <<"d","o","g">>

ClassArgs == { <<>>, << <<>> >>, << <<" ">>, <<"\t", " ">> >>,
               << CAT >>, << DOG, CAT >>,
               << <<" ">> \o CAT \o <<" ">>, <<" ">>, DOG \o <<"\t">> >>,
               << <<"a"," ","b">>, <<>> >> }

Open == \E path \in OpenPaths, mode \in MODES : open_project(path, mode)

ChangeSplit == \E split \in SplitArgs : change_split(split)

Remove == \E img \in ImageArgs, split \in SplitArgs : remove_image(img, split)

RestoreList == \E split \in SplitArgs : restore_list(split)

Restore == \E split \in SplitArgs, filename \in NameArgs : restore_image(split, filename)

GetLabels == \E img \in ImageArgs, split \in SplitArgs : get_labels(img, split)

Save == \E img \in ImageArgs, split \in SplitArgs, rects \in RectArgs : save_labels(img, split, rects)

Export == \E out \in OutArgs, fmt \in FmtArgs : export_all(out, fmt)

SetClasses == \E names \in ClassArgs : set_classes(names)

Next ==
  \/ Open \/ ChangeSplit \/ Remove \/ RestoreList \/ Restore
  \/ GetLabels \/ Save \/ Export \/ SetClasses

Spec == Init /\ [][Next]_vars

\* the project resolver and the split manager alone
NextOpen == Open \/ ChangeSplit

SpecOpen == Init /\ [][NextOpen]_vars

\* the soft-delete manager with the split manager
NextSoftDelete == Open \/ ChangeSplit \/ Remove \/ RestoreList \/ Restore

SpecSoftDelete == Init /\ [][NextSoftDelete]_vars

\* the annotation store
NextLabels == Open \/ Save

SpecLabels == Init /\ [][NextLabels]_vars

\* the export pipeline
NextExport == Open \/ Save \/ Export

SpecExport == Init /\ [][NextExport]_vars

\* the soft-delete manager with its moves interleaved with the requests
\* of other callers
RemoveBegin == \E img \in ImageArgs, split \in SplitArgs : remove_image_begin(img, split)

RestoreBegin == \E split \in SplitArgs, filename \in NameArgs : restore_image_begin(split, filename)

NextConcurrent ==
  \/ Open \/ RemoveBegin \/ RestoreBegin \/ move_label \/ finish_move
  \/ GetLabels \/ RestoreList

SpecConcurrent == Init /\ [][NextConcurrent]_vars

\* the class registry
NextClasses == Open \/ SetClasses

SpecClasses == Init /\ [][NextClasses]_vars

(***************************************************************************)
(* The codec on its own: a data set of one image, of one of several sizes, *)
(* whose label file is absent or holds one of several texts; labels are    *)
(* saved and read through the handlers.                                    *)
(***************************************************************************)
Sized(id, w, h) == [kind |-> "image", id |-> id, w |-> w, h |-> h]

\* (width, height) of the image
Sizes == { <<100, 200>>, <<64, 7>> }

GOOD1 == <<Num(0), Num(500000), Num(500000), Num(200000), Num(400000)>>

GOOD2 == <<Num(1700000), Num(250000), Num(750000), Num(100000), Num(300000)>>

FOUR == <<Num(0), Num(500000), Num(500000), Num(200000)>>

SIX == <<Num(2000000), Num(500000), Num(500000), Num(200000), Num(400000), Num(900000)>>

BLANK == <<>>

\* five fields, one of them no number
WORDY == <<Num(0), Num(500000), Word("x"), Num(200000), Num(400000)>>

\* four fields, one of them no number
WORDY4 == <<Word("x"), Num(500000), Num(200000), Num(400000)>>

LabelTexts == { <<>>, <<GOOD1>>, <<FOUR, GOOD1, SIX>>, <<GOOD2, BLANK, GOOD1>>,
                <<WORDY4, GOOD2>>, <<GOOD1, WORDY>>, <<WORDY, GOOD2>> }

CodecRoot == <<"ws", "cd">>

P_JPG == <<"p",".","j","p","g">>

P_TXT == <<"p",".","t","x","t">>

CodecImage == File(CodecRoot \o <<"images", "train">>, P_JPG)

CodecLabel == File(CodecRoot \o <<"labels", "train">>, P_TXT)

InitCodec ==
  /\ dirs = Closure({ CodecRoot \o <<"images", "train">>, CodecRoot \o <<"labels", "train">> })
  /\ \E size \in Sizes :
       \/ files = (CodecImage :> Sized(1, size[1], size[2]))
       \/ \E text \in LabelTexts :
            files = (CodecImage :> Sized(1, size[1], size[2]) @@ CodecLabel :> Text(text))
  /\ Started

\* the rectangle lists a client saves: (x1, y1, x2, y2, class id)
CodecRects == { <<>>,
                << <<40, 60, 60, 140, 0>> >>,
                << <<0, 0, 1, 5, 2>>, <<1, 1, 2, 3, 0>> >>,
                << <<1, 0, 2, 1, -1>> >>,
                << <<60, 140, 40, 60, 1>>, <<5, 5, 5, 5, 3>>, <<-3, 2, 7, 1, 0>> >> }

OpenCodec == \E mode \in MODES : open_project(CodecRoot, mode)

SaveCodec == \E img \in ImageArgs, rects \in CodecRects : save_labels(img, "train", rects)

NextCodec == OpenCodec \/ SaveCodec \/ GetLabels

SpecCodec == InitCodec /\ [][NextCodec]_vars

(***************************************************************************)
(* Vocabulary of the properties                                            *)
(***************************************************************************)
Range(q) == { q[i] : i \in 1..Len(q) }

Loaded(st) == st.root # <<>>

\* the files and the directories at or below directory d
FilesUnder(fs, d) == { f \in DOMAIN fs : IsPrefix(d, f.dir) }

DirsUnder(ds, d) == { c \in ds : IsPrefix(d, c) }

\* the tree at or below d is the same in two states of the file system
SameTree(fs1, ds1, fs2, ds2, d) ==
  /\ DirsUnder(ds1, d) = DirsUnder(ds2, d)
  /\ FilesUnder(fs1, d) = FilesUnder(fs2, d)
  /\ \A f \in FilesUnder(fs1, d) : fs1[f] = fs2[f]

\* q lists, in ascending order and once each, the files of directory d
\* whose names are in the set names
IsSortedListing(q, d, names) ==
  /\ Range(q) = { File(d, n) : n \in names }
  /\ \A i, j \in 1..Len(q) : i < j => StrLess(q[i].name, q[j].name)

\* the names list_images is to keep: an allow-listed extension, and
\* visible to the glob
ListedNames(fs, d) == { n \in NamesIn(fs, d) : HasAllowedExt(n) /\ n[1] # "." }

\* a project without an images/ subtree
IsFlat(ds, root) == ~isdir(ds, root \o <<"images">>)

\* img is an image of split s of the project: it lies in images/<s>, or in
\* the root of a flat project whose only split is train
ImageOfSplit(snap, img, s) ==
  /\ HasAllowedExt(img.name)
  /\ \/ img.dir = snap.state.root \o <<"images", s>>
     \/ IsFlat(snap.dirs, snap.state.root) /\ s = "train" /\ img.dir = snap.state.root

\* img lies in the active tree: in the root or in a folder of images/
ActivePath(root, img) ==
  \/ img.dir = root
  \/ Len(img.dir) = Len(root) + 2 /\ IsPrefix(root \o <<"images">>, img.dir)

RemovedImage(root, split, name) == File(root \o <<"removed", split, "images">>, name)

RemovedLabel(root, split, name) == File(root \o <<"removed", split, "labels">>, name)

ActiveLabel(root, split, name) == File(root \o <<"labels", split>>, name)

(***************************************************************************)
(* C1  Remove, then restore of the same split and file name with nothing   *)
(* in between, brings the image and its label back to their paths with     *)
(* their content, and the cached image list is what it was before the      *)
(* remove.  The step checked is the restore; prev holds the state before   *)
(* the remove.                                                             *)
(***************************************************************************)
C1_RoundTripStep ==
  ( /\ resp.op = "remove" /\ resp.code = 200
    /\ resp'.op = "restore" /\ resp'.code = 200 /\ nops' = nops + 1
    /\ resp'.split = resp.split /\ resp'.filename = resp.img.name
    /\ ImageOfSplit(prev, resp.img, resp.split) )
  => LET lbl == LabelPath(prev.state.root, resp.split, resp.img) IN
     /\ isfile(files', resp.img) /\ files'[resp.img] = prev.files[resp.img]
     /\ isfile(prev.files, lbl) => isfile(files', lbl) /\ files'[lbl] = prev.files[lbl]
     /\ state'.images = prev.state.images

C1_RemoveRestoreRoundTrip == [][C1_RoundTripStep]_vars

(***************************************************************************)
(* C2  A remove fails only when the image is no file.  After a successful  *)
(* remove of an image of the active tree, the image is gone from its path  *)
(* and is at removed/<split>/images/<filename>; each of the label files    *)
(* labels/<split>/<base>.txt and .json that existed is gone from there and *)
(* is at removed/<split>/labels/ under its name.                           *)
(***************************************************************************)
C2_RemoveMovesImageAndLabels ==
  (resp.op = "remove" /\ resp.code # 400) =>
    LET root == prev.state.root
        img  == resp.img
        s    == resp.split
        base == splitext(img.name)[1]
    IN  /\ resp.code = (IF isfile(prev.files, img) THEN 200 ELSE 404)
        /\ (resp.code = 200 /\ ActivePath(root, img)) =>
             /\ ~isfile(files, img)
             /\ isfile(files, RemovedImage(root, s, img.name))
             /\ files[RemovedImage(root, s, img.name)] = prev.files[img]
             /\ \A ext \in {TXT, JSON} :
                  isfile(prev.files, ActiveLabel(root, s, base \o ext)) =>
                    /\ ~isfile(files, ActiveLabel(root, s, base \o ext))
                    /\ isfile(files, RemovedLabel(root, s, base \o ext))
                    /\ files[RemovedLabel(root, s, base \o ext)]
                         = prev.files[ActiveLabel(root, s, base \o ext)]

\* an image of the active tree was removed and its .txt label went with it
C2_Witness ==
  /\ resp.op = "remove" /\ resp.code = 200
  /\ ActivePath(prev.state.root, resp.img)
  /\ isfile(prev.files, ActiveLabel(prev.state.root, resp.split, splitext(resp.img.name)[1] \o TXT))
  /\ isfile(files, RemovedLabel(state.root, resp.split, splitext(resp.img.name)[1] \o TXT))

(***************************************************************************)
(* C3  After a save that succeeded, the label file exists if and only if   *)
(* the rectangle set saved was not empty: a save of the empty set removes  *)
(* the label file that was there and creates none where there was none,    *)
(* and changes no other file.                                              *)
(***************************************************************************)
C3_LabelFileIffRects ==
  (resp.op = "save" /\ resp.code = 200) =>
    /\ isfile(files, resp.lbl) <=> resp.rects # <<>>
    /\ resp.rects # <<>> => Len(LinesOf(files[resp.lbl])) = Len(resp.rects)
    /\ \A f \in (DOMAIN files \cup DOMAIN prev.files) \ {resp.lbl} :
         isfile(files, f) /\ isfile(prev.files, f) /\ files[f] = prev.files[f]

\* the empty set was saved over a label file that existed
C3_Witness ==
  /\ resp.op = "save" /\ resp.code = 200
  /\ resp.rects = <<>>
  /\ isfile(prev.files, resp.lbl)
  /\ ~isfile(files, resp.lbl)

(***************************************************************************)
(* C4  Export leaves the project as it was.  As stated, for every output   *)
(* folder: the tree at and below the project root and the project state    *)
(* are the same after an export as before it.                              *)
(***************************************************************************)
ExportKept ==
  /\ SameTree(prev.files, prev.dirs, files, dirs, prev.state.root)
  /\ state = prev.state

C4_ExportNeverMutatesSource ==
  (resp.op = "export" /\ resp.code # 400) => ExportKept

\* C4 as amended: the same, for an output folder that is not the project
\* root, not inside it and not above it
Apart(a, b) == ~IsPrefix(a, b) /\ ~IsPrefix(b, a)

C4_ExportOutsideKeepsSource ==
  (resp.op = "export" /\ resp.code # 400 /\ Apart(prev.state.root, resp.out)) => ExportKept

\* an export outside the project copied at least one image
C4_Witness ==
  /\ resp.op = "export" /\ resp.code = 200
  /\ Apart(prev.state.root, resp.out)
  /\ resp.count > 0
  /\ FilesUnder(files, resp.out) # {}

(***************************************************************************)
(* C5  A "YOLO (.txt)" export into an output folder that holds nothing     *)
(* succeeds; every image of every present split (of the root, as split     *)
(* train, in a flat project) is then at output/images/<split>/<filename>;  *)
(* output/labels/<split>/<base>.txt is there if and only if the label file *)
(* labels/<split>/<base>.txt of the project is; and the count returned is  *)
(* the number of those images.                                             *)
(***************************************************************************)
\* the images of the project, split by split, as the tree held them
\* before the request
ProjectImages(snap) ==
  IF IsFlat(snap.dirs, snap.state.root)
  THEN { [split |-> "train", img |-> f] : f \in Range(list_images(snap.files, snap.state.root)) }
  ELSE UNION { { [split |-> s, img |-> f] :
                   f \in Range(list_images(snap.files, snap.state.root \o <<"images", s>>)) } :
               s \in { t \in Range(SPLITS) : isdir(snap.dirs, snap.state.root \o <<"images", t>>) } }

EmptyFolder(snap, d) ==
  /\ FilesUnder(snap.files, d) = {}
  /\ DirsUnder(snap.dirs, d) \subseteq {d}

C5_YoloExportComplete ==
  (resp.op = "export" /\ resp.code # 400 /\ resp.fmt = "YOLO (.txt)" /\ EmptyFolder(prev, resp.out)) =>
    /\ resp.code = 200
    /\ resp.count = Cardinality(ProjectImages(prev))
    /\ \A e \in ProjectImages(prev) :
         LET lbl == LabelPath(prev.state.root, e.split, e.img) IN
         /\ isfile(files, File(resp.out \o <<"images", e.split>>, e.img.name))
         /\ isfile(files, File(resp.out \o <<"labels", e.split>>, lbl.name))
              <=> isfile(prev.files, lbl)

(***************************************************************************)
(* C6  On a loaded project select_split(name) answers without an error.    *)
(* If root/images/<name> is a directory the active split becomes name and  *)
(* the cached list the sorted listing of that directory; if not, the       *)
(* active split becomes train and the cached list empty.  Root and mode    *)
(* stay.                                                                   *)
(***************************************************************************)
C6_SelectSplit ==
  (resp.op = "split" /\ Loaded(prev.state)) =>
    LET d == prev.state.root \o <<"images", resp.split>> IN
    /\ resp.code = 200
    /\ state.root = prev.state.root /\ state.mode = prev.state.mode
    /\ IF isdir(prev.dirs, d)
       THEN /\ state.split = resp.split
            /\ IsSortedListing(state.images, d, ListedNames(files, d))
       ELSE /\ state.split = "train"
            /\ state.images = <<>>

\* a split other than the active one was selected and has images
C6_Witness ==
  /\ resp.op = "split" /\ resp.code = 200
  /\ resp.split # prev.state.split
  /\ state.split = resp.split
  /\ state.images # <<>>

(***************************************************************************)
(* C7  yolo_root answers with the first qualifying directory among the     *)
(* path, its parent, its grandparent and then the subdirectories of the    *)
(* path, and with None when none qualifies.  rank is the place of a        *)
(* directory in that order.                                                *)
(***************************************************************************)
Rank(p, c) ==
  IF c = p THEN 1
  ELSE IF c = dirname(p) THEN 2
  ELSE IF c = dirname(dirname(p)) THEN 3
  ELSE 4

Candidates(ds, p) == {p, dirname(p), dirname(dirname(p))} \cup SubdirsOf(ds, p)

Qualifies(ds, c) == \E s \in {"train", "val", "test"} : (c \o <<"images", s>>) \in ds

FirstQualifying(ds, p, r) ==
  IF r = None
  THEN \A c \in Candidates(ds, p) : ~Qualifies(ds, c)
  ELSE /\ r \in Candidates(ds, p)
       /\ Qualifies(ds, r)
       /\ \A c \in Candidates(ds, p) : Qualifies(ds, c) => Rank(p, r) <= Rank(p, c)

\* the part of C7 that stands: every answer yolo_root can give, on every
\* directory of the tree and on a path that is none, is the first
\* qualifying candidate; and open_project was given such an answer
C7_FirstQualifyingCandidate ==
  /\ \A p \in dirs \cup {MissingDir} : \A r \in yolo_root(dirs, p) : FirstQualifying(dirs, p, r)
  /\ (resp.op = "open" /\ resp.code = 200) => FirstQualifying(prev.dirs, resp.path, resp.detected)

\* C7's closing sentence as stated: for every folder P whose parent holds
\* images/train, the answer is the parent
C7_ParentHoldingTrainIsReturned ==
  \A p \in dirs :
    (p # <<>> /\ (dirname(p) \o <<"images", "train">>) \in dirs) => yolo_root(dirs, p) = { dirname(p) }

\* the closing sentence as amended: ... and P does not itself qualify
C7_ParentOfPlainFolderIsReturned ==
  \A p \in dirs :
    (p # <<>> /\ ~Qualifies(dirs, p) /\ (dirname(p) \o <<"images", "train">>) \in dirs)
      => yolo_root(dirs, p) = { dirname(p) }

\* C7 as amended: the first qualifying candidate is the answer, and the
\* parent that holds images/train is the answer for a folder that does
\* not itself qualify
C7_RootResolution == C7_FirstQualifyingCandidate /\ C7_ParentOfPlainFolderIsReturned

\* a folder that does not qualify was opened and its parent, which holds
\* images/train, was detected
C7_Witness ==
  /\ resp.op = "open" /\ resp.code = 200
  /\ ~Qualifies(prev.dirs, resp.path)
  /\ (dirname(resp.path) \o <<"images", "train">>) \in prev.dirs
  /\ resp.detected = dirname(resp.path)
  /\ state.root = dirname(resp.path)

(***************************************************************************)
(* C8  Opening a flat folder (no images/ subtree, no root detected) that   *)
(* holds n files with an allow-listed extension gives the active split     *)
(* train, a cached list of exactly those n files in ascending order, and a *)
(* labels/train directory under the root.                                  *)
(***************************************************************************)
FlatOpen ==
  /\ resp.op = "open" /\ resp.code = 200
  /\ resp.detected = None
  /\ IsFlat(prev.dirs, resp.path)

C8_FlatOpenListsEveryImage ==
  FlatOpen =>
    /\ state.root = resp.path
    /\ state.split = "train"
    /\ IsSortedListing(state.images, resp.path,
                       { n \in NamesIn(files, resp.path) : HasAllowedExt(n) })
    /\ isdir(dirs, resp.path \o <<"labels", "train">>)

(***************************************************************************)
(* C9  A remove whose image path is no file, and a restore whose file name *)
(* is not in removed/<split>/images/, answer 404 and change nothing: the   *)
(* files, the directories and the project state are what they were.  And   *)
(* only such a request is answered 404.                                    *)
(***************************************************************************)
Untouched == files = prev.files /\ dirs = prev.dirs /\ state = prev.state

C9_MissingImageChangesNothing ==
  /\ (resp.op = "remove" /\ resp.code # 400) =>
       IF isfile(prev.files, resp.img) THEN resp.code = 200
       ELSE resp.code = 404 /\ Untouched
  /\ (resp.op = "restore" /\ resp.code # 400) =>
       IF isfile(prev.files, RemovedImage(prev.state.root, resp.split, resp.filename))
       THEN resp.code = 200
       ELSE resp.code = 404 /\ Untouched

\* a restore was refused for a split that holds other removed files
C9_Witness ==
  /\ resp.op = "restore" /\ resp.code = 404
  /\ NamesIn(files, state.root \o <<"removed", resp.split, "images">>) # {}
  /\ Untouched

(***************************************************************************)
(* C10  list_removed(s) is, in ascending order, the names of the files     *)
(* held in removed/<s>/images/.  As stated: every name there is listed.    *)
(***************************************************************************)
ListsExactly(q, names) ==
  /\ Range(q) = names
  /\ \A i, j \in 1..Len(q) : i < j => StrLess(q[i], q[j])

C10_ListRemovedIsAllHeld ==
  Loaded(state) =>
    \A s \in SplitArgs :
      ListsExactly(RemovedList(files, dirs, state.root, s),
                   NamesIn(files, state.root \o <<"removed", s, "images">>))

\* C10 as amended: the names listed are those held there that end, in any
\* letter case, in an allow-listed extension; a file just removed under
\* such a name is listed, a file just restored is not, and restore_list
\* answers with that list
C10_ListRemovedIsHeldImages ==
  Loaded(state) =>
    /\ \A s \in SplitArgs :
         ListsExactly(RemovedList(files, dirs, state.root, s),
                      { n \in NamesIn(files, state.root \o <<"removed", s, "images">>) :
                          HasAllowedExt(n) })
    /\ (resp.op = "remove" /\ resp.code = 200 /\ HasAllowedExt(resp.img.name)) =>
         resp.img.name \in Range(RemovedList(files, dirs, state.root, resp.split))
    /\ (resp.op = "restore" /\ resp.code = 200) =>
         resp.filename \notin Range(RemovedList(files, dirs, state.root, resp.split))
    /\ (resp.op = "list" /\ resp.code = 200) =>
         ListsExactly(resp.files,
                      { n \in NamesIn(files, state.root \o <<"removed", resp.split, "images">>) :
                          HasAllowedExt(n) })

\* the list of a split was asked for after a remove and names a file
\* that is held
C10_Witness ==
  /\ resp.op = "list" /\ resp.code = 200
  /\ resp.files # <<>>
  /\ Range(resp.files) \subseteq NamesIn(files, state.root \o <<"removed", resp.split, "images">>)

(***************************************************************************)
(* C11  In every reachable state the active split is one of the names      *)
(* train, val, test, whatever split arguments the requests carry.          *)
(***************************************************************************)
C11_ActiveSplitIsFixedName == state.split \in {"train", "val", "test"}

(***************************************************************************)
(* C12  The class registry is never empty.  A set-classes request whose    *)
(* names are all empty or blank is answered 400 and leaves the registry as *)
(* it was; any other is answered 200 and the registry becomes the list of  *)
(* its non-blank names in the order given.  As stated: the names are       *)
(* stored as they were given.                                              *)
(***************************************************************************)
NonBlank(n) == \E i \in 1..Len(n) : ~IsSpace(n[i])

C12_RegistryIsNonBlankNames ==
  /\ class_names # <<>>
  /\ resp.op = "classes" =>
       LET given == SelectSeq(resp.names, NonBlank) IN
       IF given = <<>>
       THEN resp.code = 400 /\ class_names = prev.class_names
       ELSE resp.code = 200 /\ class_names = given

\* t is n without the white space at its two ends
Trims(n, t) ==
  \E i, j \in 0..Len(n) :
     /\ i + j <= Len(n)
     /\ t = SubSeq(n, i + 1, Len(n) - j)
     /\ \A k \in 1..i : IsSpace(n[k])
     /\ \A k \in (Len(n) - j + 1)..Len(n) : IsSpace(n[k])
     /\ t # <<>> => ~IsSpace(t[1]) /\ ~IsSpace(t[Len(t)])

\* C12 as amended: each name is stored without the white space around it;
\* the request changes nothing but the registry
C12_RegistryIsTrimmedNames ==
  /\ class_names # <<>>
  /\ \A i \in 1..Len(class_names) : NonBlank(class_names[i])
  /\ resp.op = "classes" =>
       LET given == SelectSeq(resp.names, NonBlank) IN
       /\ files = prev.files /\ dirs = prev.dirs /\ state = prev.state
       /\ IF given = <<>>
          THEN resp.code = 400 /\ class_names = prev.class_names
          ELSE /\ resp.code = 200
               /\ Len(class_names) = Len(given)
               /\ \A i \in 1..Len(given) : Trims(given[i], class_names[i])

\* a list of blank names was refused after a list with blank and padded
\* names had been accepted
C12_Witness ==
  /\ resp.op = "classes" /\ resp.code = 400
  /\ resp.names # <<>>
  /\ class_names = <<CAT, DOG>>

(***************************************************************************)
(* C13  An export whose format string is neither "YOLO (.txt)" nor "JSON"  *)
(* fails, and the output folder holds no file that it did not hold before  *)
(* the request.                                                            *)
(***************************************************************************)
C13_UnknownFormatWritesNothing ==
  (resp.op = "export" /\ resp.code # 400 /\ resp.fmt \notin {"YOLO (.txt)", "JSON"}) =>
    /\ resp.code # 200
    /\ FilesUnder(files, resp.out) = FilesUnder(prev.files, resp.out)
    /\ \A f \in FilesUnder(files, resp.out) : files[f] = prev.files[f]

(***************************************************************************)
(* C14  Reading the labels of an image never fails on the text of the      *)
(* label file: the answer holds one rectangle for every line of five       *)
(* numeric fields, in the order of the file, and nothing for any other     *)
(* line.                                                                   *)
(***************************************************************************)
WellFormed(l) == Len(l) = 5 /\ \A i \in 1..5 : "num" \in DOMAIN l[i]

\* the rectangle of a well-formed line, a coordinate as a count of
\* 1/(2*10^6) pixel: x1 = (cx - bw/2)*W, y1 = (cy - bh/2)*H, ...
RectOf(l, w, h) ==
  << (2 * l[2].num - l[4].num) * w, (2 * l[3].num - l[5].num) * h,
     (2 * l[2].num + l[4].num) * w, (2 * l[3].num + l[5].num) * h,
     IF l[1].num >= 0 THEN l[1].num \div MICRO ELSE -((-l[1].num) \div MICRO) >>

\* the lines of the label file a labels request read
LinesRead == IF isfile(files, resp.lbl) THEN LinesOf(files[resp.lbl]) ELSE <<>>

C14_DecodeSkipsMalformedLines ==
  (resp.op = "labels" /\ "lbl" \in DOMAIN resp) =>
    LET good == SelectSeq(LinesRead, WellFormed) IN
    /\ resp.code = 200
    /\ resp.rects = [i \in 1..Len(good) |-> RectOf(good[i], resp.width, resp.height)]

(***************************************************************************)
(* C16  Codec round trip.  When the labels a save wrote are read back for  *)
(* an image of the same size, the answer has as many rectangles as were    *)
(* saved, in the same order, with the same class ids, and every coordinate *)
(* is within 10^-6 of the one saved, in units of the image width (x1, x2)  *)
(* or height (y1, y2); the empty list reads back as the empty list.  The   *)
(* step checked is the read that follows the save.  A coordinate read is a *)
(* count of 1/(2*10^6) pixel, so 10^-6 of the width W is 2*W counts.       *)
(***************************************************************************)
Abs(n) == IF n >= 0 THEN n ELSE -n

\* every image the label file can belong to has this size
OnlySize(lbl, w, h) ==
  \A f \in DOMAIN files :
     (files[f].kind = "image" /\ splitext(f.name)[1] \o TXT = lbl.name) => files[f].w = w /\ files[f].h = h

Within(saved, read, w, h) ==
  /\ read[5] = saved[5]
  /\ Abs(read[1] - 2 * MICRO * saved[1]) <= 2 * w
  /\ Abs(read[3] - 2 * MICRO * saved[3]) <= 2 * w
  /\ Abs(read[2] - 2 * MICRO * saved[2]) <= 2 * h
  /\ Abs(read[4] - 2 * MICRO * saved[4]) <= 2 * h

C16_RoundTripStep ==
  ( /\ resp.op = "save" /\ resp.code = 200
    /\ resp'.op = "labels" /\ nops' = nops + 1
    /\ "lbl" \in DOMAIN resp' /\ resp'.lbl = resp.lbl
    /\ OnlySize(resp.lbl, resp'.width, resp'.height) )
  => /\ resp'.code = 200
     /\ Len(resp'.rects) = Len(resp.rects)
     /\ \A i \in 1..Len(resp.rects) :
          Within(resp.rects[i], resp'.rects[i], resp'.width, resp'.height)

C16_CodecRoundTrip == [][C16_RoundTripStep]_vars

\* two rectangles saved for the image of width 64 were read back, the
\* first of them not at the pixel it was saved at
C16_Witness ==
  /\ resp.op = "labels" /\ resp.code = 200
  /\ resp.width = 64 /\ resp.height = 7
  /\ LinesRead = Encode(<< <<0, 0, 1, 5, 2>>, <<1, 1, 2, 3, 0>> >>, 64, 7)
  /\ Len(resp.rects) = 2
  /\ resp.rects[1][1] # 0

(***************************************************************************)
(* C17  Reading a label file whose only line is "0 0.5 0.5 0.2 0.4" for an *)
(* image of width 100 and height 200 gives exactly one rectangle, in the   *)
(* order (x1, y1, x2, y2, class id).  As stated: [40, 30, 60, 110, 0].     *)
(***************************************************************************)
ScenarioRead ==
  /\ resp.op = "labels" /\ "lbl" \in DOMAIN resp
  /\ resp.width = 100 /\ resp.height = 200
  /\ LinesRead = << <<Num(0), Num(500000), Num(500000), Num(200000), Num(400000)>> >>

\* a rectangle given in pixels, as the counts of 1/(2*10^6) pixel read
Pixels(r) == << 2 * MICRO * r[1], 2 * MICRO * r[2], 2 * MICRO * r[3], 2 * MICRO * r[4], r[5] >>

C17_ScenarioAsStated ==
  ScenarioRead => resp.code = 200 /\ resp.rects = << Pixels(<<40, 30, 60, 110, 0>>) >>

\* C17 as amended: the rectangle is [40, 60, 60, 140, 0]
C17_ScenarioRectangle ==
  ScenarioRead => resp.code = 200 /\ resp.rects = << Pixels(<<40, 60, 60, 140, 0>>) >>

\* the file of the scenario was read for the image of 100 by 200
C17_Witness ==
  /\ ScenarioRead
  /\ resp.code = 200
  /\ Len(resp.rects) = 1

(***************************************************************************)
(* C18  After opening a project whose root has an images/ subtree, the     *)
(* active split is train if images/train is present and lists an image;    *)
(* else the first split, in the order train, val, test, that is present    *)
(* and lists an image; else the first that is present; else train.  The    *)
(* cached list is the listing of that split, and empty if its directory    *)
(* is absent.                                                              *)
(***************************************************************************)
SplitOrder == <<"train", "val", "test">>

\* the first name of SplitOrder in the set S (S not empty)
FirstIn(S) ==
  SplitOrder[CHOOSE i \in 1..3 : SplitOrder[i] \in S /\ \A j \in 1..(i-1) : SplitOrder[j] \notin S]

PresentIn(snap, root) == { s \in Range(SplitOrder) : (root \o <<"images", s>>) \in snap.dirs }

NonEmptyIn(snap, root) ==
  { s \in PresentIn(snap, root) : ListedNames(snap.files, root \o <<"images", s>>) # {} }

C18_ActiveSplitOnOpen ==
  (resp.op = "open" /\ resp.code = 200 /\ (state.root \o <<"images">>) \in prev.dirs) =>
    LET present   == PresentIn(prev, state.root)
        non_empty == NonEmptyIn(prev, state.root)
        d         == state.root \o <<"images", state.split>>
    IN  /\ state.split = IF "train" \in non_empty THEN "train"
                         ELSE IF non_empty # {} THEN FirstIn(non_empty)
                         ELSE IF present # {} THEN FirstIn(present)
                         ELSE "train"
        /\ IF state.split \in present
           THEN IsSortedListing(state.images, d, ListedNames(files, d))
           ELSE state.images = <<>>

\* images/train was present and empty, and a later split that has an
\* image became the active one
C18_Witness ==
  /\ resp.op = "open" /\ resp.code = 200
  /\ "train" \in PresentIn(prev, state.root)
  /\ "train" \notin NonEmptyIn(prev, state.root)
  /\ state.split = "val"
  /\ state.images # <<>>

(***************************************************************************)
(* C19  After every request the cached image list is the sorted listing of *)
(* the image directory of the active split: images/<split> under the root, *)
(* or the root itself in a flat project.  It names no image that is not    *)
(* there and misses none that is.                                          *)
(***************************************************************************)
ActiveDir == IF IsFlat(dirs, state.root) THEN state.root ELSE state.root \o <<"images", state.split>>

C19_CacheIsActiveListing ==
  Loaded(state) => IsSortedListing(state.images, ActiveDir, ListedNames(files, ActiveDir))

(***************************************************************************)
(* C20  No remove or restore loses a file: every file the tree held at the *)
(* start is still there, with its content, in exactly one place.  The      *)
(* files of a tree differ in content, so a content names its file.         *)
(***************************************************************************)
\* the files of the tree the run started on: directories are never
\* deleted, and no two trees have the same
StartFiles == (CHOOSE L \in Layouts : L.dirs \subseteq dirs).files

PlacesOf(c) == { g \in DOMAIN files : files[g] = c }

C20_NoFileIsLost ==
  \A f \in DOMAIN StartFiles : Cardinality(PlacesOf(StartFiles[f])) = 1

(***************************************************************************)
(* C15  An image and its label move as a pair: in no state, whatever the   *)
(* requests of other callers that run between the moves of a remove or a   *)
(* restore, is an image in removed/<s>/images/ while a label of its base   *)
(* name is in labels/<s>/, or an image in images/<s>/ while a label of its *)
(* base name is in removed/<s>/labels/.                                    *)
(***************************************************************************)
SplitNames == { d[Len(d)] : d \in { c \in dirs : Len(c) > 0 } }

LabelsOf(d, name) == { File(d, splitext(name)[1] \o ext) : ext \in {TXT, JSON} }

C15_ImageAndLabelMoveAsPair ==
  Loaded(state) =>
    \A s \in SplitNames :
      LET root == state.root IN
      /\ \A n \in NamesIn(files, root \o <<"removed", s, "images">>) :
           LabelsOf(root \o <<"labels", s>>, n) \cap DOMAIN files = {}
      /\ \A n \in NamesIn(files, root \o <<"images", s>>) :
           LabelsOf(root \o <<"removed", s, "labels">>, n) \cap DOMAIN files = {}

====
